---- MODULE Spec2Model ----
(***************************************************************************)
(* BingSearch (gpt_researcher/retrievers/bing/bing.py): construction of    *)
(* the retriever and one invocation of search(), with the upstream search  *)
(* backend and the probed web hosts as the environment.                    *)
(*                                                                         *)
(* Strings that the code inspects (URLs, domain names) are sequences of    *)
(* one-character strings, so that lower(), "in" and startswith() are       *)
(* computed as Python computes them.                                       *)
(***************************************************************************)
EXTENDS Integers, Sequences, FiniteSets, TLC

\* ------------------------------------------------------------------ bounds
\* largest max_results passed to search()
MaxResults == 2
\* largest number of entries of one backend page
MaxPageLen == 2

\* ------------------------------------------------------- program constants
\* bing.py:56
max_attempts == 5

\* ------------------------------------------------------------ str helpers
UpperChars ==
  <<"A","B","C","D","E","F","G","H","I","J","K","L","M",
    "N","O","P","Q","R","S","T","U","V","W","X","Y","Z">>

LowerChars ==
  <<"a","b","c","d","e","f","g","h","i","j","k","l","m",
    "n","o","p","q","r","s","t","u","v","w","x","y","z">>

\* one character of str.lower()
LowerChar(c) ==
  IF \E i \in 1..Len(UpperChars) : UpperChars[i] = c
  THEN LowerChars[CHOOSE i \in 1..Len(UpperChars) : UpperChars[i] = c]
  ELSE c

\* str.lower()
Lower(s) == [i \in 1..Len(s) |-> LowerChar(s[i])]

\* Python's  needle in hay  on strings
Contains(needle, hay) ==
  \E i \in 0..(Len(hay) - Len(needle)) :
     SubSeq(hay, i + 1, i + Len(needle)) = needle

\* str.startswith
StartsWith(s, prefix) ==
  /\ Len(s) >= Len(prefix)
  /\ SubSeq(s, 1, Len(prefix)) = prefix

\* the literal "youtube.com" of the blocked-source check
YoutubeCom == <<"y","o","u","t","u","b","e",".","c","o","m">>

\* the literal "http" of the probe guard
HttpPrefix == <<"h","t","t","p">>

\* ------------------------------------------------------------ environment
UrlA   == <<"h","t","t","p",":","/","/","a",".","c","o">>
UrlB   == <<"h","t","t","p",":","/","/","B",".","c","o">>
UrlYt  == <<"h","t","t","p",":","/","/","y","o","u","t","u","b","e",".","c","o","m",
            "/","a",".","c","o">>
UrlFtp == <<"f","t","p",":","/","/","a",".","c","o">>

\* the entries the backend can put on a page: {url, name, snippet}
Candidates ==
  { [url |-> UrlA,   name |-> "A",     snippet |-> "a"],
    [url |-> UrlA,   name |-> "A bis", snippet |-> "a2"],
    [url |-> UrlB,   name |-> "B",     snippet |-> "b"],
    [url |-> UrlYt,  name |-> "Y",     snippet |-> "y"],
    [url |-> UrlFtp, name |-> "F",     snippet |-> "f"] }

Urls == { c.url : c \in Candidates }

\* URLs that requests.head can reach at all (scheme http/https)
Probeable == { u \in Urls : StartsWith(Lower(u), HttpPrefix) }

\* the sets of URLs that may answer a HEAD request with status < 400; the
\* youtube URL is never probed (line 84 skips it first), so it always answers
Reachable == { s \in SUBSET Probeable : UrlYt \in s }

\* a non-empty page of the backend
Pages == UNION { [1..n -> Candidates] : n \in 1..MaxPageLen }

\* the query_domains argument: None, or a list of domain strings
NoneValue == [given |-> FALSE, list |-> <<>>]

DomainArgs ==
  { NoneValue,
    [given |-> TRUE, list |-> <<>>],
    [given |-> TRUE, list |-> << <<"B",".","C","O">>, YoutubeCom >>] }

\* Python truth value of an Optional[list]
Truthy(x) == x.given /\ Len(x.list) > 0

\* fault: the argument is stored as given
OrNoneIdentity(x) == x

\* x or None
OrNone(x) == IF Truthy(x) THEN x ELSE NoneValue

\* s[:n]
Take(s, n) == SubSeq(s, 1, IF n < Len(s) THEN n ELSE Len(s))

VARIABLES
  env_has_key,      \* BING_API_KEY is set in os.environ
  alive,            \* the URLs whose HEAD request answers with status < 400
  index,            \* the ranked entries of a backend that answers from an index
  parked,           \* the frame of another call of search() that is not running
  pc,               \* position of the caller / of search()
  domains_arg,      \* the query_domains argument given to __init__
  query_domains,    \* self.query_domains
  api_key,          \* self.api_key is set
  max_results,
  filtered_results,
  seen_urls,
  dropped_dead,
  dropped_domain,
  offset,
  page_size,
  attempts,
  results,          \* the page being iterated
  idx,              \* position of the for loop in results
  returned,         \* the value returned by search()
  requests_sent,    \* history: number of requests.get calls
  last_resp,        \* history: kind of the last backend response
  probe_count,      \* history: number of requests.head calls per URL
  probe_ok          \* history: URLs whose probe returned status < 400

vars ==
  << env_has_key, alive, index, parked, pc, domains_arg, query_domains, api_key, max_results,
     filtered_results, seen_urls, dropped_dead, dropped_domain, offset,
     page_size, attempts, results, idx, returned, requests_sent, last_resp,
     probe_count, probe_ok >>

env     == << env_has_key, alive, index >>
self    == << domains_arg, query_domains, api_key >>
counts  == << dropped_dead, dropped_domain >>
cursor  == << offset, page_size, attempts >>
history == << requests_sent, last_resp, probe_count, probe_ok >>

\* the locals and the bookkeeping of a call of search() that has not started
FreshFrame ==
  [ pc |-> "ready", max_results |-> 0, filtered_results |-> <<>>,
    seen_urls |-> {}, dropped_dead |-> 0, dropped_domain |-> 0, offset |-> 0,
    page_size |-> 0, attempts |-> 0, results |-> <<>>, idx |-> 0,
    returned |-> <<>>, requests_sent |-> 0, last_resp |-> "none",
    probe_count |-> [u \in Urls |-> 0], probe_ok |-> {} ]

Init ==
  /\ env_has_key \in BOOLEAN
  /\ alive \in Reachable
  /\ index = <<>>
  /\ parked = FreshFrame
  /\ pc = "new"
  /\ domains_arg = NoneValue
  /\ query_domains = NoneValue
  /\ api_key = FALSE
  /\ max_results = 0
  /\ filtered_results = <<>>
  /\ seen_urls = {}
  /\ dropped_dead = 0
  /\ dropped_domain = 0
  /\ offset = 0
  /\ page_size = 0
  /\ attempts = 0
  /\ results = <<>>
  /\ idx = 0
  /\ returned = <<>>
  /\ requests_sent = 0
  /\ last_resp = "none"
  /\ probe_count = [u \in Urls |-> 0]
  /\ probe_ok = {}

\* ------------------------------------------------------------ construction
\* BingSearch(query, query_domains) with BING_API_KEY set
Construct(domains) ==
  /\ pc = "new"
  /\ env_has_key
  /\ domains_arg' = domains
  /\ query_domains' = OrNone(domains)
  /\ api_key' = TRUE
  /\ pc' = "ready"
  /\ UNCHANGED << env, parked, max_results, filtered_results, seen_urls, counts,
                  cursor, results, idx, returned, history >>

\* fault: the missing key is swallowed and the object is handed out
ConstructFailsSilently ==
  /\ pc = "new"
  /\ ~env_has_key
  /\ pc' = "ready"
  /\ UNCHANGED << env, parked, self, max_results, filtered_results, seen_urls, counts,
                  cursor, results, idx, returned, history >>

\* get_api_key raises: the object is never created
ConstructFails ==
  /\ pc = "new"
  /\ ~env_has_key
  /\ pc' = "config_error"
  /\ UNCHANGED << env, parked, self, max_results, filtered_results, seen_urls, counts,
                  cursor, results, idx, returned, history >>

\* ------------------------------------------------------------------ search
\* entry of search(max_results): the locals before the while loop
Search(n) ==
  /\ pc = "ready"
  /\ max_results' = n
  /\ filtered_results' = <<>>
  /\ seen_urls' = {}
  /\ dropped_dead' = 0
  /\ dropped_domain' = 0
  /\ offset' = 0
  /\ page_size' = n
  /\ attempts' = 0
  /\ pc' = "while"
  /\ UNCHANGED << env, parked, self, results, idx, returned, history >>

\* fault: the attempt test lets one more iteration through
LoopConditionOffByOne ==
  /\ Len(filtered_results) < max_results
  /\ attempts <= max_attempts

\* the condition of the while loop
LoopCondition ==
  /\ Len(filtered_results) < max_results
  /\ attempts < max_attempts

\* the loop is entered: requests.get is called.  The page of the previous
\* iteration is never read again, so it is dropped here.
IssueRequest ==
  /\ pc = "while"
  /\ LoopCondition
  /\ requests_sent' = requests_sent + 1
  /\ results' = <<>>
  /\ idx' = 0
  /\ pc' = "get"
  /\ UNCHANGED << env, parked, self, max_results, filtered_results, seen_urls, counts,
                  cursor, returned, last_resp, probe_count, probe_ok >>

\* the loop is left by its condition: log line and return
Return ==
  /\ pc = "while"
  /\ ~LoopCondition
  /\ returned' = Take(filtered_results, max_results)
  /\ pc' = "done"
  /\ UNCHANGED << env, parked, self, max_results, filtered_results, seen_urls, counts,
                  cursor, results, idx, history >>

\* the log line and the return statement, reached by a break of the while loop
BreakAndReturn ==
  /\ returned' = Take(filtered_results, max_results)
  /\ pc' = "done"

\* requests.get raises (connection error, DNS failure, ...): nothing in
\* search() catches it, the exception reaches the caller
GetRaises ==
  /\ pc = "get"
  /\ last_resp' = "error"
  /\ pc' = "raised"
  /\ UNCHANGED << env, parked, self, max_results, filtered_results, seen_urls, counts,
                  cursor, results, idx, returned, requests_sent, probe_count,
                  probe_ok >>

\* the body is not JSON or has no ["webPages"]["value"] (as the error body of
\* a non-2xx response): the except branch logs and breaks
GetMalformed ==
  /\ pc = "get"
  /\ last_resp' = "malformed"
  /\ BreakAndReturn
  /\ UNCHANGED << env, parked, self, max_results, filtered_results, seen_urls, counts,
                  cursor, results, idx, requests_sent, probe_count, probe_ok >>

\* the backend rejects the API key: a 401 response whose JSON error body has
\* no "webPages" entry, so the except branch logs and breaks
GetUnauthorized ==
  /\ pc = "get"
  /\ last_resp' = "unauthorized"
  /\ BreakAndReturn
  /\ UNCHANGED << env, parked, self, max_results, filtered_results, seen_urls, counts,
                  cursor, results, idx, requests_sent, probe_count, probe_ok >>

\* fault: the test for an empty page is missing, the for loop runs over it
GetEmptyContinues ==
  /\ pc = "get"
  /\ last_resp' = "empty"
  /\ results' = <<>>
  /\ idx' = 1
  /\ pc' = "for"
  /\ UNCHANGED << env, parked, self, max_results, filtered_results, seen_urls, counts,
                  cursor, returned, requests_sent, probe_count, probe_ok >>

\* a page with zero entries: if not results: break
GetEmpty ==
  /\ pc = "get"
  /\ last_resp' = "empty"
  /\ results' = <<>>
  /\ BreakAndReturn
  /\ UNCHANGED << env, parked, self, max_results, filtered_results, seen_urls, counts,
                  cursor, idx, requests_sent, probe_count, probe_ok >>

\* a page with entries: the for loop starts
GetPage(page) ==
  /\ pc = "get"
  /\ last_resp' = "page"
  /\ results' = page
  /\ idx' = 1
  /\ pc' = "for"
  /\ UNCHANGED << env, parked, self, max_results, filtered_results, seen_urls, counts,
                  cursor, returned, requests_sent, probe_count, probe_ok >>

\* ------------------------------------------------------- filter pipeline
\* fault: the blocked-source test never fires
BlockedNever(url) == FALSE

\* "youtube.com" in url_
Blocked(url) == Contains(YoutubeCom, url)

\* fault: allowed starts as True
AllowedAlways(url) == TRUE

\* the allow-list loop: some domain.lower() in url_.lower()
Allowed(url) ==
  \E i \in 1..Len(query_domains.list) :
     Contains(Lower(query_domains.list[i]), Lower(url))

\* the candidate is dropped by the allow-list filter
DomainMismatch(url) == Truthy(query_domains) /\ ~Allowed(url)

\* the for loop has a current candidate
AtCandidate == pc = "for" /\ idx <= Len(results)

\* continue
NextCandidate ==
  /\ idx' = idx + 1
  /\ pc' = "for"

\* fault: the offset is not advanced
AdvancePageKeepsOffset ==
  /\ offset' = offset
  /\ attempts' = attempts + 1
  /\ pc' = "while"
  /\ UNCHANGED page_size

\* the statements after the for loop: offset += page_size; attempts += 1
AdvancePage ==
  /\ offset' = offset + page_size
  /\ attempts' = attempts + 1
  /\ pc' = "while"
  /\ UNCHANGED page_size

\* fault: the break test is off by one
BreakConditionOffByOne(list) == Len(list) > max_results

\* fault: the break after an append is missing
BreakNever(list) == FALSE

\* the break condition after an append
BreakCondition(list) == Len(list) >= max_results

\* the search_result dict
SearchResult(c) == [title |-> c.name, href |-> c.url, body |-> c.snippet]

\* filtered_results.append(search_result) and the break test
Accept(c) ==
  /\ filtered_results' = Append(filtered_results, SearchResult(c))
  /\ IF BreakCondition(filtered_results')
     THEN AdvancePage /\ idx' = idx
     ELSE NextCandidate /\ UNCHANGED cursor

SkipBlocked ==
  /\ AtCandidate
  /\ Blocked(results[idx].url)
  /\ NextCandidate
  /\ UNCHANGED << env, parked, self, max_results, filtered_results, seen_urls, counts,
                  cursor, results, returned, history >>

SkipDomain ==
  /\ AtCandidate
  /\ ~Blocked(results[idx].url)
  /\ DomainMismatch(results[idx].url)
  /\ dropped_domain' = dropped_domain + 1
  /\ NextCandidate
  /\ UNCHANGED << env, parked, self, max_results, filtered_results, seen_urls,
                  dropped_dead, cursor, results, returned, history >>

\* the candidate passed the blocked-source and the allow-list checks
PassedDomainChecks ==
  /\ AtCandidate
  /\ ~Blocked(results[idx].url)
  /\ ~DomainMismatch(results[idx].url)

\* fault: the duplicate test never fires
AlreadySeenNever(url) == FALSE

\* url_ in seen_urls
AlreadySeen(url) == url \in seen_urls

SkipDuplicate ==
  /\ PassedDomainChecks
  /\ AlreadySeen(results[idx].url)
  /\ NextCandidate
  /\ UNCHANGED << env, parked, self, max_results, filtered_results, seen_urls, counts,
                  cursor, results, returned, history >>

\* url_.startswith("http")
NeedsProbe(url) == StartsWith(url, HttpPrefix)

\* fault: the URL is not recorded as seen before the probe
IssueProbeWithoutSeen ==
  /\ PassedDomainChecks
  /\ ~AlreadySeen(results[idx].url)
  /\ NeedsProbe(results[idx].url)
  /\ probe_count' = [probe_count EXCEPT ![results[idx].url] = @ + 1]
  /\ pc' = "head"
  /\ UNCHANGED << env, parked, self, max_results, filtered_results, seen_urls, counts,
                  cursor, results, idx, returned, requests_sent, last_resp,
                  probe_ok >>

\* seen_urls.add(url_); requests.head(url_, timeout=3) is called
IssueProbe ==
  /\ PassedDomainChecks
  /\ ~AlreadySeen(results[idx].url)
  /\ NeedsProbe(results[idx].url)
  /\ seen_urls' = seen_urls \cup {results[idx].url}
  /\ probe_count' = [probe_count EXCEPT ![results[idx].url] = @ + 1]
  /\ pc' = "head"
  /\ UNCHANGED << env, parked, self, max_results, filtered_results, counts, cursor,
                  results, idx, returned, requests_sent, last_resp, probe_ok >>

\* seen_urls.add(url_); the URL does not start with "http": the try block
\* does nothing and the candidate is appended
AcceptUnprobed ==
  /\ PassedDomainChecks
  /\ ~AlreadySeen(results[idx].url)
  /\ ~NeedsProbe(results[idx].url)
  /\ seen_urls' = seen_urls \cup {results[idx].url}
  /\ Accept(results[idx])
  /\ UNCHANGED << env, parked, self, max_results, counts, results, returned,
                  requests_sent, last_resp, probe_count, probe_ok >>

\* the probe answers with status < 400
ProbeOk ==
  /\ pc = "head"
  /\ results[idx].url \in alive
  /\ probe_ok' = probe_ok \cup {results[idx].url}
  /\ Accept(results[idx])
  /\ UNCHANGED << env, parked, self, max_results, seen_urls, counts, results,
                  returned, requests_sent, last_resp, probe_count >>

\* dropped_dead += 1; continue
DropDead ==
  /\ dropped_dead' = dropped_dead + 1
  /\ NextCandidate
  /\ UNCHANGED << env, parked, self, max_results, filtered_results, seen_urls,
                  dropped_domain, cursor, results, returned, history >>

\* the probe answers with status >= 400
ProbeDead ==
  /\ pc = "head"
  /\ results[idx].url \notin alive
  /\ DropDead

\* fault: the exception of the probe is not caught
ProbeExceptionPropagates ==
  /\ pc = "head"
  /\ results[idx].url \notin alive
  /\ pc' = "raised"
  /\ UNCHANGED << env, parked, self, max_results, filtered_results, seen_urls, counts,
                  cursor, results, idx, returned, history >>

\* the probe raises (timeout after 3 s, connection error, TLS failure, ...)
ProbeException ==
  /\ pc = "head"
  /\ results[idx].url \notin alive
  /\ DropDead

\* the for loop is exhausted
EndOfPage ==
  /\ pc = "for"
  /\ idx > Len(results)
  /\ AdvancePage
  /\ UNCHANGED << env, parked, self, max_results, filtered_results, seen_urls, counts,
                  results, idx, returned, history >>

Next ==
  \/ \E d \in DomainArgs : Construct(d)
  \/ ConstructFails
  \/ \E n \in 1..MaxResults : Search(n)
  \/ IssueRequest
  \/ Return
  \/ GetRaises
  \/ GetMalformed
  \/ GetUnauthorized
  \/ GetEmpty
  \/ \E page \in Pages : GetPage(page)
  \/ SkipBlocked
  \/ SkipDomain
  \/ SkipDuplicate
  \/ IssueProbe
  \/ AcceptUnprobed
  \/ ProbeOk
  \/ ProbeDead
  \/ ProbeException
  \/ EndOfPage

Spec == Init /\ [][Next]_vars

\* the steps search() takes by itself: no network answer is awaited
EngineStep ==
  \/ IssueRequest
  \/ Return
  \/ SkipBlocked
  \/ SkipDomain
  \/ SkipDuplicate
  \/ IssueProbe
  \/ AcceptUnprobed
  \/ EndOfPage

\* requests.head(url_, timeout=3, ...): an answer or an exception within
\* the timeout
ProbeAnswer == ProbeOk \/ ProbeDead \/ ProbeException

\* The interpreter keeps running search(), and every probe ends because of
\* its timeout.  requests.get(url, headers=headers, params=params) has no
\* timeout argument, so nothing guarantees that it ever answers.
FairSpec == Spec /\ WF_vars(EngineStep) /\ WF_vars(ProbeAnswer)

\* ------------------------------------------------- two concurrent calls
\* Two calls of search() on one BingSearch object, run by two threads.  Every
\* local of search() (lines 50-57) lives in the frame of its call; the
\* variables of the module hold the frame of the running call and parked the
\* frame of the other one.  The object (self.query_domains, self.api_key) is
\* shared and only read.
RunningFrame ==
  [ pc |-> pc, max_results |-> max_results,
    filtered_results |-> filtered_results, seen_urls |-> seen_urls,
    dropped_dead |-> dropped_dead, dropped_domain |-> dropped_domain,
    offset |-> offset, page_size |-> page_size, attempts |-> attempts,
    results |-> results, idx |-> idx, returned |-> returned,
    requests_sent |-> requests_sent, last_resp |-> last_resp,
    probe_count |-> probe_count, probe_ok |-> probe_ok ]

\* fault: seen_urls is kept on the object instead of in the frame of the
\* call, so both calls use one set
SwitchSharingSeen ==
  /\ pc \notin {"new", "config_error"}
  /\ parked' = RunningFrame
  /\ pc' = parked.pc
  /\ max_results' = parked.max_results
  /\ filtered_results' = parked.filtered_results
  /\ seen_urls' = seen_urls
  /\ dropped_dead' = parked.dropped_dead
  /\ dropped_domain' = parked.dropped_domain
  /\ offset' = parked.offset
  /\ page_size' = parked.page_size
  /\ attempts' = parked.attempts
  /\ results' = parked.results
  /\ idx' = parked.idx
  /\ returned' = parked.returned
  /\ requests_sent' = parked.requests_sent
  /\ last_resp' = parked.last_resp
  /\ probe_count' = parked.probe_count
  /\ probe_ok' = parked.probe_ok
  /\ UNCHANGED << env, self >>

\* the interpreter switches threads: the running call is suspended with its
\* frame and the other call goes on with its own
Switch ==
  /\ pc \notin {"new", "config_error"}
  /\ parked' = RunningFrame
  /\ pc' = parked.pc
  /\ max_results' = parked.max_results
  /\ filtered_results' = parked.filtered_results
  /\ seen_urls' = parked.seen_urls
  /\ dropped_dead' = parked.dropped_dead
  /\ dropped_domain' = parked.dropped_domain
  /\ offset' = parked.offset
  /\ page_size' = parked.page_size
  /\ attempts' = parked.attempts
  /\ results' = parked.results
  /\ idx' = parked.idx
  /\ returned' = parked.returned
  /\ requests_sent' = parked.requests_sent
  /\ last_resp' = parked.last_resp
  /\ probe_count' = parked.probe_count
  /\ probe_ok' = parked.probe_ok
  /\ UNCHANGED << env, self >>

\* the answer of a backend that serves "count" entries of its index from
\* "offset" on (params of the request)
IndexSlice(off, count) ==
  SubSeq(index, off + 1, IF off + count < Len(index) THEN off + count
                                                     ELSE Len(index))

\* the indexed backend answers the pending request with entries
IndexPage ==
  /\ IndexSlice(offset, page_size) # <<>>
  /\ GetPage(IndexSlice(offset, page_size))

\* the indexed backend has no entry left at the offset
IndexEmpty ==
  /\ IndexSlice(offset, page_size) = <<>>
  /\ GetEmpty

\* search() as a function of the backend's index, the live URLs and the
\* allow-list: what one call computes when it runs alone
RECURSIVE SoloWhile(_, _, _, _), SoloFor(_, _, _, _, _, _)
SoloFor(n, att, page, i, seen, acc) ==
  IF i > Len(page)
  THEN SoloWhile(n, att + 1, seen, acc)
  ELSE LET u == page[i].url
       IN  IF Blocked(u) \/ DomainMismatch(u) \/ u \in seen
           THEN SoloFor(n, att, page, i + 1, seen, acc)
           ELSE IF NeedsProbe(u) /\ u \notin alive
           THEN SoloFor(n, att, page, i + 1, seen \cup {u}, acc)
           ELSE IF Len(acc) + 1 >= n
           THEN SoloWhile(n, att + 1, seen \cup {u},
                          Append(acc, SearchResult(page[i])))
           ELSE SoloFor(n, att, page, i + 1, seen \cup {u},
                        Append(acc, SearchResult(page[i])))

SoloWhile(n, att, seen, acc) ==
  IF Len(acc) < n /\ att < max_attempts /\ IndexSlice(att * n, n) # <<>>
  THEN SoloFor(n, att, IndexSlice(att * n, n), 1, seen, acc)
  ELSE Take(acc, n)

SoloSearch(n) == SoloWhile(n, 0, {}, <<>>)

ConcInit ==
  /\ env_has_key = TRUE
  /\ alive \in Reachable
  /\ index \in Pages
  /\ parked = FreshFrame
  /\ pc = "new"
  /\ domains_arg = NoneValue
  /\ query_domains = NoneValue
  /\ api_key = FALSE
  /\ max_results = 0
  /\ filtered_results = <<>>
  /\ seen_urls = {}
  /\ dropped_dead = 0
  /\ dropped_domain = 0
  /\ offset = 0
  /\ page_size = 0
  /\ attempts = 0
  /\ results = <<>>
  /\ idx = 0
  /\ returned = <<>>
  /\ requests_sent = 0
  /\ last_resp = "none"
  /\ probe_count = [u \in Urls |-> 0]
  /\ probe_ok = {}

ConcNext ==
  \/ \E d \in DomainArgs : Construct(d)
  \/ \E n \in 1..MaxResults : Search(n)
  \/ Switch
  \/ IssueRequest
  \/ Return
  \/ IndexPage
  \/ IndexEmpty
  \/ SkipBlocked
  \/ SkipDomain
  \/ SkipDuplicate
  \/ IssueProbe
  \/ AcceptUnprobed
  \/ ProbeOk
  \/ ProbeDead
  \/ ProbeException
  \/ EndOfPage

ConcSpec == ConcInit /\ [][ConcNext]_vars

\* ------------------------------------------------------------ properties
\* search() has been entered
InSearch == pc \in {"while", "get", "for", "head", "done", "raised"}

\* C1: in one invocation of search the number of upstream search requests
\* never exceeds the attempt ceiling of 5, whatever the backend answers.
C1_AttemptCeiling == requests_sent <= max_attempts

\* the ceiling, not the result count, ended the loop
C1_Witness ==
  /\ pc = "done"
  /\ requests_sent = max_attempts
  /\ attempts = max_attempts
  /\ Len(returned) < max_results

\* C2 (as claimed): every returned record was accepted after a probe of its
\* URL answered with a status below 400; a URL that does not begin with the
\* scheme is never probed and never returned.
C2_ReturnedWereProbed ==
  /\ \A i \in 1..Len(filtered_results) : filtered_results[i].href \in probe_ok
  /\ \A i \in 1..Len(returned) : returned[i].href \in probe_ok

\* C3 (as claimed): a failed page request (exception of the request, error
\* response, malformed body) raises nothing: the loop ends and the results
\* accepted so far are returned.
C3_RequestFailureAbsorbed ==
  last_resp \in {"error", "malformed", "unauthorized"} =>
     /\ pc = "done"
     /\ returned = filtered_results

\* C4: the number of accepted results is at most max_results at every point
\* of the loop, and so is the length of the returned list.
C4_ResultsBounded ==
  InSearch =>
     /\ Len(filtered_results) <= max_results
     /\ Len(returned) <= max_results

\* the candidate at position j of the page would be accepted if it were reached
WouldSurvive(j) ==
  /\ ~Blocked(results[j].url)
  /\ ~DomainMismatch(results[j].url)
  /\ results[j].url \notin seen_urls
  /\ results[j].url \in alive

\* the list is full and a candidate that would survive is left on the page
C4_Witness ==
  /\ pc = "done"
  /\ Len(returned) = max_results
  /\ \E j \in (idx + 1)..Len(results) : WouldSurvive(j)

\* the hrefs of a list of records are pairwise distinct
DistinctUrls(list) ==
  \A i, j \in 1..Len(list) : i # j => list[i].href # list[j].href

\* C5: the URLs of the returned records are pairwise distinct; a candidate
\* whose URL was already seen (same page or an earlier page) is never accepted.
C5_NoDuplicates ==
  /\ [](DistinctUrls(filtered_results) /\ DistinctUrls(returned))
  /\ [][(AtCandidate /\ results[idx].url \in seen_urls)
           => filtered_results' = filtered_results]_vars

\* the candidate just passed over repeats the URL of an accepted record that
\* came from another entry
C5_Witness ==
  /\ pc = "for"
  /\ idx > 1
  /\ \E k \in 1..Len(filtered_results) :
        /\ filtered_results[k].href = results[idx - 1].url
        /\ filtered_results[k].title # results[idx - 1].name

\* the URL contains one of the listed domains, compared in lower case
MatchesAllowList(href) ==
  \E i \in 1..Len(query_domains.list) :
     Contains(Lower(query_domains.list[i]), Lower(href))

\* C6: with a non-empty allow-list every accepted and every returned record
\* has a URL that contains one of the listed domains, case-insensitively.
C6_AllowListRespected ==
  Truthy(query_domains) =>
     /\ \A i \in 1..Len(filtered_results) :
           MatchesAllowList(filtered_results[i].href)
     /\ \A i \in 1..Len(returned) : MatchesAllowList(returned[i].href)

\* a search with an allow-list that dropped a candidate and returned another
C6_Witness ==
  /\ pc = "done"
  /\ Truthy(query_domains)
  /\ dropped_domain >= 1
  /\ Len(returned) >= 1
  /\ \A i \in 1..Len(returned) : returned[i].href \in probe_ok

\* C7: once max_results results are accepted, no further liveness probe and
\* no further page request is issued.
C7_NoWorkAfterFull ==
  [][(InSearch /\ Len(filtered_results) >= max_results)
        => (probe_count' = probe_count /\ requests_sent' = requests_sent)]_vars

\* search returned a full list before the ceiling and left on the page a
\* candidate that the next iteration would have probed
C7_Witness ==
  /\ pc = "done"
  /\ Len(filtered_results) = max_results
  /\ \A i \in 1..Len(returned) : returned[i].href \in probe_ok
  /\ requests_sent < max_attempts
  /\ \E j \in (idx + 1)..Len(results) :
        /\ ~Blocked(results[j].url)
        /\ ~DomainMismatch(results[j].url)
        /\ ~AlreadySeen(results[j].url)
        /\ NeedsProbe(results[j].url)
        /\ probe_count[results[j].url] = 0

\* the live, unique, non-blocked, allowed candidates of a page, in page order
RECURSIVE GoodFrom(_, _, _)
GoodFrom(page, i, earlier) ==
  IF i > Len(page)
  THEN <<>>
  ELSE LET c == page[i]
           good == /\ ~Blocked(c.url)
                   /\ ~DomainMismatch(c.url)
                   /\ c.url \notin earlier
                   /\ c.url \in alive
       IN  (IF good THEN <<SearchResult(c)>> ELSE <<>>)
              \o GoodFrom(page, i + 1, earlier \cup {c.url})

Good(page) == GoodFrom(page, 1, {})

\* records are only ever appended, and the appended record is the candidate
\* under the cursor of the for loop
AppendsCurrentCandidate ==
  filtered_results' # filtered_results =>
     /\ pc \in {"for", "head"}
     /\ filtered_results' = Append(filtered_results, SearchResult(results[idx]))

\* the cursor only moves forward: to a later entry or to a later page
CursorMovesForward ==
  /\ InSearch => attempts' >= attempts
  /\ (pc \in {"for", "head"} /\ pc' \in {"for", "head"}) => idx' >= idx

\* after page 1 alone: enough good candidates on it give exactly the first
\* max_results of them
FirstPageExact ==
  (pc \in {"while", "done"} /\ attempts = 1 /\ last_resp = "page"
      /\ Len(Good(results)) >= max_results)
  => /\ filtered_results = Take(Good(results), max_results)
     /\ pc = "done" => returned = Take(Good(results), max_results)

\* C8 (as claimed): the returned records are in backend order, and when
\* page 1 holds at least max_results live, unique, non-blocked, allowed
\* candidates the result is exactly the first max_results of them.
C8_BackendOrderExact ==
  /\ [][AppendsCurrentCandidate /\ CursorMovesForward]_vars
  /\ []FirstPageExact

\* the order half of C8 on its own
BackendOrder == [][AppendsCurrentCandidate /\ CursorMovesForward]_vars

\* C9 (as claimed): every invocation of search eventually reaches DONE and
\* returns, every network call being bounded by a timeout.
C9_SearchReturns == (pc = "while") ~> (pc = "done")

\* C10: an empty page ends the fetching: no later page is requested and the
\* results accepted so far are returned without error; on the first request
\* the result is the empty list.
C10_EmptyPageStops ==
  /\ [](last_resp = "empty" =>
          /\ pc = "done"
          /\ returned = filtered_results
          /\ requests_sent = 1 => returned = <<>>)
  /\ [][last_resp = "empty" => requests_sent' = requests_sent]_vars

\* an empty page on a later request, with results from the earlier pages
C10_Witness ==
  /\ pc = "done"
  /\ last_resp = "empty"
  /\ requests_sent > 1
  /\ Len(returned) >= 1

\* no probe was issued at all
NoProbeIssued == \A u \in Urls : probe_count[u] = 0

\* C11: without BING_API_KEY the construction fails before any network call,
\* the object does not exist and no search, request or probe is ever run.
C11_NoKeyNoNetwork ==
  ~env_has_key =>
     /\ pc \in {"new", "config_error"}
     /\ ~api_key
     /\ requests_sent = 0
     /\ NoProbeIssued

\* the construction has failed
C11_Witness ==
  /\ ~env_has_key
  /\ pc = "config_error"

\* the href occurs in the list
HasUrl(list, u) == \E i \in 1..Len(list) : list[i].href = u

\* a probe of a URL that is not alive is awaited
DeadProbePending == pc = "head" /\ results[idx].url \notin alive

\* C12: a candidate whose liveness probe fails (status >= 400 or any
\* exception) is left out of the results, adds exactly one to the dead-link
\* counter, raises nothing, and the loop goes on with the next candidate.
C12_DeadLinkDropped ==
  /\ [][DeadProbePending =>
          /\ dropped_dead' = dropped_dead + 1
          /\ filtered_results' = filtered_results
          /\ pc' = "for"
          /\ idx' = idx + 1
          /\ results' = results]_vars
  /\ [](\A u \in Urls :
          (probe_count[u] > 0 /\ u \notin alive) =>
             (~HasUrl(filtered_results, u) /\ ~HasUrl(returned, u)))

\* a dead candidate was dropped and the next candidate of the page is up
C12_Witness ==
  /\ AtCandidate
  /\ idx > 1
  /\ probe_count[results[idx - 1].url] = 1
  /\ results[idx - 1].url \notin alive
  /\ dropped_dead = 1
  /\ ~HasUrl(filtered_results, results[idx - 1].url)

\* C13 (as claimed): the domain-filtered counter counts the blocked-source
\* rejections together with the allow-list rejections, so it grows by one
\* at each of them and at nothing else.
C13_DomainCounterCountsBoth ==
  [][InSearch =>
       IF AtCandidate /\ (Blocked(results[idx].url)
                            \/ DomainMismatch(results[idx].url))
       THEN dropped_domain' = dropped_domain + 1
       ELSE dropped_domain' = dropped_domain]_vars

\* the counter does count the allow-list rejections
AllowListRejectionsCounted ==
  [][InSearch =>
       IF AtCandidate /\ ~Blocked(results[idx].url)
                      /\ DomainMismatch(results[idx].url)
       THEN dropped_domain' = dropped_domain + 1
       ELSE dropped_domain' = dropped_domain]_vars

\* C14 (as claimed): the only failure that reaches the caller is a
\* configuration error for a missing or invalid credential; a key that the
\* backend rejects gives a configuration error, not a returned list.
C14_OnlyConfigurationError ==
  /\ pc = "config_error" => requests_sent = 0
  /\ last_resp = "unauthorized" => pc = "config_error"

\* C15: the offset starts at 0 and grows by page_size = max_results after
\* every completed page, whatever was accepted from it: every request is sent
\* with offset = (pages already processed) * page_size.
C15_OffsetFollowsPages ==
  InSearch =>
     /\ page_size = max_results
     /\ offset = attempts * page_size
     /\ pc = "get" => offset = (requests_sent - 1) * page_size

\* the second request, after a first page that gave fewer than max_results
\* results because of the allow-list
C15_Witness ==
  /\ pc = "get"
  /\ requests_sent = 2
  /\ offset = page_size
  /\ Truthy(query_domains)
  /\ dropped_domain >= 1
  /\ Len(filtered_results) = 1
  /\ max_results = 2

\* the URLs that were probed, found dead and counted
DeadCounted ==
  { u \in Urls : /\ probe_count[u] > 0
                 /\ u \notin alive
                 /\ ~(pc = "head" /\ results[idx].url = u) }

\* C16: within one invocation every URL is probed at most once; a probed URL
\* is in the seen set, so a later occurrence is passed over without a second
\* probe and the dead-link counter counts each dead URL once.
C16_ProbedOnce ==
  /\ \A u \in Urls : probe_count[u] <= 1
  /\ \A u \in Urls : probe_count[u] > 0 => u \in seen_urls
  /\ InSearch => dropped_dead = Cardinality(DeadCounted)

\* the second occurrence of a dead URL on a page has been passed over
C16_Witness ==
  /\ pc = "for"
  /\ idx = 3
  /\ results[1].url = results[2].url
  /\ results[1].url \notin alive
  /\ probe_count[results[1].url] = 1
  /\ dropped_dead = 1

\* the URL is on the deny-list of blocked sources
OnDenyList(u) == Contains(YoutubeCom, u)

\* C17: no accepted or returned record has a blocked (youtube.com) URL, with
\* or without allow-list; a blocked candidate is never put into the seen set
\* and never probed.
C17_BlockedNeverReturned ==
  \A u \in Urls :
     OnDenyList(u) =>
        /\ ~HasUrl(filtered_results, u)
        /\ ~HasUrl(returned, u)
        /\ u \notin seen_urls
        /\ probe_count[u] = 0

\* a blocked candidate that the allow-list names has been passed over
C17_Witness ==
  /\ pc = "for"
  /\ idx > 1
  /\ OnDenyList(results[idx - 1].url)
  /\ Truthy(query_domains)
  /\ MatchesAllowList(results[idx - 1].url)

\* the empty list was given as allow-list
EmptyListGiven == domains_arg.given /\ Len(domains_arg.list) = 0

\* C19: an empty allow-list acts as an absent one: the object holds None for
\* it, no candidate is rejected for its domain and the domain-filtered counter
\* stays 0.
C19_EmptyListIsNone ==
  (pc # "new" /\ EmptyListGiven) =>
     /\ query_domains = NoneValue
     /\ dropped_domain = 0
     /\ AtCandidate => ~DomainMismatch(results[idx].url)

\* a search with the empty list that accepted a candidate which other
\* allow-lists of the model reject
C19_Witness ==
  /\ pc = "done"
  /\ EmptyListGiven
  /\ HasUrl(returned, UrlA)

\* C18: two concurrent calls of search() share no retrieval state: a step of
\* the running call leaves the frame of the other call as it is, a thread
\* switch only exchanges the two frames, and each call returns the list it
\* returns when it runs alone on the same backend and probe answers.
C18_CallsIsolated ==
  /\ [](pc = "done" => returned = SoloSearch(max_results))
  /\ [](parked.pc = "done" => parked.returned = SoloSearch(parked.max_results))
  /\ [][parked' # parked =>
          (parked' = RunningFrame /\ RunningFrame' = parked)]_vars

\* both calls are in flight, each waiting for the probe of the same URL, each
\* with that URL in its own seen set
C18_Witness ==
  /\ pc = "head"
  /\ parked.pc = "head"
  /\ results[idx].url = parked.results[parked.idx].url
  /\ results[idx].url \in seen_urls \cap parked.seen_urls
  /\ results[idx].url \in alive

====
